---- MODULE Spec2Model ----
(***************************************************************************)
(* Model of src/eval/sample.py: the stratified sampler for SWE-bench       *)
(* Verified.  One invocation of main() is a run: normalize_difficulty,     *)
(* compute_strata, stratified_sample (allocation, one draw per stratum,    *)
(* concat + shuffle), build_stats_report, then either the dry-run return   *)
(* or the two file writes and the success messages.  The program is        *)
(* invoked twice on the same (dataset, n, seed) and the same output        *)
(* directory, the second time in a fresh process whose unseeded numpy      *)
(* generator is in another state.                                          *)
(*                                                                         *)
(* Label strings are sequences of one-character strings.  The float        *)
(* arithmetic of lines 88-98, (count / total) * n, is modelled in exact    *)
(* rationals with denominator total: for total <= 5 and -3 <= n <=         *)
(* total + 3 the IEEE doubles give the same int() and the same order and   *)
(* ties of the fractional parts (at total = 6 rounding separates some      *)
(* exact ties between strata of different sizes).  The dataset carries a   *)
(* 'difficulty' column, as SWE-bench Verified does; the patch-size         *)
(* fallback of lines 51-58 is not modelled.                                *)
(***************************************************************************)
EXTENDS Integers, Sequences, FiniteSets

\* Largest number of rows of the loaded dataset.
MaxItems == 3

\* --seed values: the default of line 192 and one other.
Seeds == {7, 42}

\* States the process-wide numpy generator can be in at process start.
Ambient == {0, 1}

\* The (repo, difficulty) label pairs the rows are drawn from.
ItemTypes ==
    { [repo |-> <<"b">>, difficulty |-> <<"x">>],
      [repo |-> <<"a">>, difficulty |-> <<"X", " ">>],
      [repo |-> <<"a", " ", "|">>, difficulty |-> <<"x">>],
      [repo |-> <<"a">>, difficulty |-> <<"|", " ", "x">>] }

VARIABLES
    dataset,        \* what load_dataset() returns: rows with instance_id
    args,           \* parsed command line: n, seed, dry_run
    unserializable, \* instance_id of the row json.dumps rejects (0: none)
    np_global,      \* state of numpy's global generator (never seeded)
    py_random,      \* state of Python's random module (line 82)
    run,            \* 1 or 2: which invocation
    prev,           \* outcome of the first invocation
    pc,             \* position in main()
    error,          \* the exception that ended the run ("" when none)
    df,             \* main's df
    exact_allocs,   \* stratified_sample's exact_allocs, in dict order, each
                    \* entry with its int() and its sort key
    floor_allocs,   \* stratified_sample's floor_allocs, in dict order
    si,             \* index of the loop of line 106
    sampled_rows,   \* stratified_sample's sampled_rows
    sample,         \* what stratified_sample returned (<<>> before)
    report,         \* what build_stats_report returned (<<>> before)
    console,        \* what was printed
    out_file,       \* out_path
    stats_file,     \* stats_path
    wi              \* index of the loop of line 223

vars == <<dataset, args, unserializable, np_global, py_random, run, prev, pc,
          error, df, exact_allocs, floor_allocs, si, sampled_rows, sample, report, console,
          out_file, stats_file, wi>>

----------------------------------------------------------------------------
\* Strings

\* Code point of a character.
Ord(c) ==
    CASE c = " " -> 32
      [] c = "X" -> 88
      [] c = "a" -> 97
      [] c = "b" -> 98
      [] c = "x" -> 120
      [] c = "|" -> 124

RECURSIVE LexLess(_, _)
\* s < t on Python strings.
LexLess(s, t) ==
    IF t = <<>> THEN FALSE
    ELSE IF s = <<>> THEN TRUE
    ELSE IF Head(s) # Head(t) THEN Ord(Head(s)) < Ord(Head(t))
    ELSE LexLess(Tail(s), Tail(t))

RECURSIVE LStrip(_)
LStrip(s) == IF s # <<>> /\ Head(s) = " " THEN LStrip(Tail(s)) ELSE s

RECURSIVE RStrip(_)
RStrip(s) ==
    IF s # <<>> /\ s[Len(s)] = " " THEN RStrip(SubSeq(s, 1, Len(s) - 1)) ELSE s

\* str.strip()
Strip(s) == RStrip(LStrip(s))

\* str.lower()
Lower(s) == [i \in 1..Len(s) |-> IF s[i] = "X" THEN "x" ELSE s[i]]

\* The separator of line 70.
Separator == <<" ", "|", " ">>

----------------------------------------------------------------------------
\* Sequences

RECURSIVE Uniq(_)
\* The distinct elements of a sequence, in order of first appearance.
Uniq(s) ==
    IF s = <<>> THEN <<>>
    ELSE LET init == Uniq(SubSeq(s, 1, Len(s) - 1))
             x == s[Len(s)]
         IN IF \E i \in 1..Len(init) : init[i] = x THEN init
            ELSE Append(init, x)

RECURSIVE SortDescStable(_)
\* Records with a field key, by descending key; equal keys keep their order.
SortDescStable(s) ==
    IF s = <<>> THEN <<>>
    ELSE LET init == SortDescStable(SubSeq(s, 1, Len(s) - 1))
             x == s[Len(s)]
             p == Cardinality({i \in 1..Len(init) : init[i].key >= x.key})
         IN SubSeq(init, 1, p) \o <<x>> \o SubSeq(init, p + 1, Len(init))

RECURSIVE SumK(_)
SumK(s) == IF s = <<>> THEN 0 ELSE s[1].k + SumK(Tail(s))

RECURSIVE Concat(_)
\* pd.concat
Concat(frames) ==
    IF frames = <<>> THEN <<>> ELSE Head(frames) \o Concat(Tail(frames))

\* seq[:r] of Python, r of either sign.
SlicePrefix(s, r) ==
    LET m == IF r >= 0 THEN (IF r < Len(s) THEN r ELSE Len(s))
             ELSE (IF Len(s) + r > 0 THEN Len(s) + r ELSE 0)
    IN SubSeq(s, 1, m)

\* int(num / den), den > 0: truncation toward zero.
Trunc(num, den) == IF num >= 0 THEN num \div den ELSE -((-num) \div den)

----------------------------------------------------------------------------
\* Pure functions of sample.py

\* normalize_difficulty, the branch of lines 59-62.
normalize_difficulty(d) ==
    [i \in 1..Len(d) |-> [d[i] EXCEPT !.difficulty = Lower(Strip(@))]]

\* The stratum key of line 70.
StratumKey(repo, difficulty) == repo \o Separator \o difficulty

\* compute_strata
compute_strata(d) ==
    [i \in 1..Len(d) |->
        [d[i] EXCEPT !.stratum = StratumKey(d[i].repo, d[i].difficulty)]]

\* df[df["stratum"] == stratum]: the rows of the stratum, in df's order.
Pool(d, stratum) ==
    LET idx == {i \in 1..Len(d) : d[i].stratum = stratum}
        F[j \in 0..Len(d)] ==
            IF j = 0 THEN <<>>
            ELSE IF j \in idx THEN Append(F[j - 1], d[j]) ELSE F[j - 1]
    IN F[Len(d)]

\* df["stratum"].value_counts(): one entry per stratum, largest first; pandas
\* lists strata of equal size in order of first appearance.
value_counts(d) ==
    LET keys == Uniq([i \in 1..Len(d) |-> d[i].stratum])
    IN SortDescStable([j \in 1..Len(keys) |->
           [stratum |-> keys[j],
            count |-> Len(Pool(d, keys[j])),
            key |-> Len(Pool(d, keys[j]))]])

\* exact_allocs of line 88, as numerators over the denominator total, with
\* the floor of line 91 and the sort key of line 98 (numerator of v - int(v)).
ExactAllocs(d, n) ==
    LET sc == value_counts(d)
        total == Len(d)
    IN [j \in 1..Len(sc) |->
           [stratum |-> sc[j].stratum,
            count |-> sc[j].count,
            exact |-> sc[j].count * n,
            floor |-> Trunc(sc[j].count * n, total),
            key |-> sc[j].count * n - total * Trunc(sc[j].count * n, total)]]

RECURSIVE SortDescLexical(_)
\* As SortDescStable, equal keys ordered by the stratum key instead.
SortDescLexical(s) ==
    IF s = <<>> THEN <<>>
    ELSE LET init == SortDescLexical(SubSeq(s, 1, Len(s) - 1))
             x == s[Len(s)]
             p == Cardinality({i \in 1..Len(init) :
                     \/ init[i].key > x.key
                     \/ init[i].key = x.key
                        /\ ~LexLess(x.stratum, init[i].stratum)})
         IN SubSeq(init, 1, p) \o <<x>> \o SubSeq(init, p + 1, Len(init))

\* Mutant of sorted_remainders: ties go to the lexically smaller key.
sorted_remainders_lexical(ea) == SortDescLexical(ea)

\* remainders of lines 96-100: sorted() is stable, also with reverse=True.
sorted_remainders(ea) == SortDescStable(ea)

\* Mutant of Increment: the loop of lines 101-102 is left out.
no_increment(ea, j, top) == 0

\* The += 1 of lines 101-102 for entry j of the dict.
Increment(ea, j, top) ==
    IF \E i \in 1..Len(top) : top[i].stratum = ea[j].stratum THEN 1 ELSE 0

\* floor_allocs after line 102.
allocation(d, n) ==
    LET ea == ExactAllocs(d, n)
        floors == [j \in 1..Len(ea) |-> [k |-> ea[j].floor]]
        remainder == n - SumK(floors)
        top == SlicePrefix(sorted_remainders(ea), remainder)
    IN [j \in 1..Len(ea) |->
           [stratum |-> ea[j].stratum,
            k |-> ea[j].floor + Increment(ea, j, top)]]

\* One step of the generator.
NextState(s) == (5 * s + 3) % 16

RECURSIVE Shuffle(_, _, _)
Shuffle(p, i, s) ==
    IF i <= 1 THEN p
    ELSE LET s2 == NextState(s)
             j == 1 + (s2 % i)
         IN Shuffle([p EXCEPT ![i] = p[j], ![j] = p[i]], i - 1, s2)

\* RandomState.permutation(m): a permutation of 1..m decided by the state.
permutation(rs, m) == Shuffle([i \in 1..m |-> i], m, rs)

\* Mutant of random_state: random_state is not passed, and pandas draws from
\* the process-wide generator.
random_state_global(seed, ambient) == ambient

\* random_state=seed of lines 111 and 114: a generator seeded with seed, not
\* the process-wide one.
random_state(seed, ambient) == seed

RECURSIVE Advance(_, _)
\* The state after i steps.
Advance(s, i) == IF i = 0 THEN s ELSE Advance(NextState(s), i - 1)

\* Mutant of Sample: replace=True, every row drawn independently.
with_replacement(frame, k, rs) ==
    [i \in 1..k |-> frame[1 + (Advance(rs, i) % Len(frame))]]

\* DataFrame.sample(n=k, random_state=rs), without replacement:
\* the rows at permutation(len)[:k].
Sample(frame, k, rs) ==
    LET locs == permutation(rs, Len(frame))
    IN [i \in 1..k |-> frame[locs[i]]]

\* min(k, len(pool)) of line 110.
Min(a, b) == IF a < b THEN a ELSE b

\* The strata of a frame.
Strata(d) == {d[i].stratum : i \in 1..Len(d)}

\* build_stats_report: the figures of the report (not its layout).
build_stats_report(full_df, sample_df, n) ==
    [full |-> Len(full_df),
     sample_size |-> n,
     repos |-> {[repo |-> r,
                 full_count |-> Cardinality({i \in 1..Len(full_df) : full_df[i].repo = r}),
                 sample_count |-> Cardinality({i \in 1..Len(sample_df) : sample_df[i].repo = r})]
                : r \in {full_df[i].repo : i \in 1..Len(full_df)}},
     difficulties |-> {[difficulty |-> r,
                 full_count |-> Cardinality({i \in 1..Len(full_df) : full_df[i].difficulty = r}),
                 sample_count |-> Cardinality({i \in 1..Len(sample_df) : sample_df[i].difficulty = r})]
                : r \in {full_df[i].difficulty : i \in 1..Len(full_df)}},
     covered |-> Cardinality(Strata(sample_df)),
     total_strata |-> Cardinality(Strata(full_df)),
     problems |-> [i \in 1..Len(sample_df) |->
                     [instance_id |-> sample_df[i].instance_id,
                      difficulty |-> sample_df[i].difficulty,
                      repo |-> sample_df[i].repo]]]

\* The record of line 224: the columns of FIELDS_TO_KEEP the sample has.
Record(row) ==
    [instance_id |-> row.instance_id, repo |-> row.repo,
     difficulty |-> row.difficulty]

\* Mutant of dry_run: the return of line 218 is never taken.
never_dry(a) == FALSE

\* The test of line 216.
dry_run(a) == a.dry_run

----------------------------------------------------------------------------
\* main()

NoFile == [exists |-> FALSE, lines |-> <<>>]

\* What a process starts from, and the state after lines 190-202: the
\* arguments are parsed and the dataset is loaded.
Init ==
    /\ \E m \in 1..MaxItems : \E f \in [1..m -> ItemTypes] :
           dataset = [i \in 1..m |->
                        [instance_id |-> i, repo |-> f[i].repo,
                         difficulty |-> f[i].difficulty, stratum |-> <<>>]]
    /\ \E n \in -1..(Len(dataset) + 1) : \E seed \in Seeds : \E dry \in BOOLEAN :
           args = [n |-> n, seed |-> seed, dry_run |-> dry]
    /\ unserializable \in {0, 1}
    /\ np_global \in Ambient
    /\ py_random = np_global
    /\ run = 1
    /\ prev = [pc |-> "", error |-> "", sample |-> <<>>, ambient |-> np_global]
    /\ pc = "normalize"
    /\ error = ""
    /\ df = dataset
    /\ exact_allocs = <<>>
    /\ floor_allocs = <<>>
    /\ si = 0
    /\ sampled_rows = <<>>
    /\ sample = <<>>
    /\ report = <<>>
    /\ console = <<>>
    /\ out_file = NoFile
    /\ stats_file = NoFile
    /\ wi = 0

\* Line 205.
NormalizeDifficulty ==
    /\ pc = "normalize"
    /\ df' = normalize_difficulty(df)
    /\ pc' = "strata"
    /\ UNCHANGED <<dataset, args, unserializable, np_global, py_random, run,
                   prev, error, exact_allocs, floor_allocs, si, sampled_rows, sample, report,
                   console, out_file, stats_file, wi>>

\* Line 206.
ComputeStrata ==
    /\ pc = "strata"
    /\ df' = compute_strata(df)
    /\ pc' = "sample"
    /\ UNCHANGED <<dataset, args, unserializable, np_global, py_random, run,
                   prev, error, exact_allocs, floor_allocs, si, sampled_rows, sample, report,
                   console, out_file, stats_file, wi>>

\* Line 209 and stratified_sample up to line 105: the seeding of Python's
\* generator and the allocation.
Allocate ==
    /\ pc = "sample"
    /\ console' = Append(console, [msg |-> "Sampling", n |-> args.n])
    /\ py_random' = args.seed
    /\ exact_allocs' = ExactAllocs(df, args.n)
    /\ floor_allocs' = allocation(df, args.n)
    /\ sampled_rows' = <<>>
    /\ si' = 1
    /\ pc' = "draw"
    /\ UNCHANGED <<dataset, args, unserializable, np_global, run, prev, error,
                   df, sample, report, out_file, stats_file, wi>>

\* One iteration of the loop of lines 106-111.
DrawStratum ==
    /\ pc = "draw"
    /\ si <= Len(floor_allocs)
    /\ LET stratum == floor_allocs[si].stratum
           pool == Pool(df, stratum)
           k == Min(floor_allocs[si].k, Len(pool))
       IN \/ /\ floor_allocs[si].k = 0
             /\ si' = si + 1
             /\ UNCHANGED <<sampled_rows, pc, error>>
          \/ /\ floor_allocs[si].k # 0
             /\ k < 0
             /\ pc' = "error"
             /\ error' = "ValueError: negative number of rows"
             /\ UNCHANGED <<sampled_rows, si>>
          \/ /\ floor_allocs[si].k # 0
             /\ k >= 0
             /\ sampled_rows' = Append(sampled_rows,
                    Sample(pool, k, random_state(args.seed, np_global)))
             /\ si' = si + 1
             /\ UNCHANGED <<pc, error>>
    /\ UNCHANGED <<dataset, args, unserializable, np_global, py_random, run,
                   prev, df, exact_allocs, floor_allocs, sample, report, console, out_file,
                   stats_file, wi>>

\* Lines 113-115, and the return to line 210.
ConcatShuffle ==
    /\ pc = "draw"
    /\ si > Len(floor_allocs)
    /\ \/ /\ sampled_rows = <<>>
          /\ pc' = "error"
          /\ error' = "ValueError: No objects to concatenate"
          /\ UNCHANGED sample
       \/ /\ sampled_rows # <<>>
          /\ sample' = LET all == Concat(sampled_rows)
                       IN Sample(all, Len(all), random_state(args.seed, np_global))
          /\ pc' = "report"
          /\ UNCHANGED error
    /\ UNCHANGED <<dataset, args, unserializable, np_global, py_random, run,
                   prev, df, exact_allocs, floor_allocs, si, sampled_rows, report, console,
                   out_file, stats_file, wi>>

\* Lines 213-214.
BuildReport ==
    /\ pc = "report"
    /\ report' = <<build_stats_report(df, sample, args.n)>>
    /\ console' = Append(console, [msg |-> "report", n |-> args.n])
    /\ pc' = "branch"
    /\ UNCHANGED <<dataset, args, unserializable, np_global, py_random, run,
                   prev, error, df, exact_allocs, floor_allocs, si, sampled_rows, sample,
                   out_file, stats_file, wi>>

\* Lines 216-218.
DryRunReturn ==
    /\ pc = "branch"
    /\ dry_run(args)
    /\ console' = Append(console, [msg |-> "[dry-run] Not saving files.", n |-> 0])
    /\ pc' = "done"
    /\ UNCHANGED <<dataset, args, unserializable, np_global, py_random, run,
                   prev, error, df, exact_allocs, floor_allocs, si, sampled_rows, sample,
                   report, out_file, stats_file, wi>>

\* Lines 221-222: open(out_path, "w") creates or empties the file.
OpenOut ==
    /\ pc = "branch"
    /\ ~dry_run(args)
    /\ out_file' = [exists |-> TRUE, lines |-> <<>>]
    /\ wi' = 1
    /\ pc' = "write"
    /\ UNCHANGED <<dataset, args, unserializable, np_global, py_random, run,
                   prev, error, df, exact_allocs, floor_allocs, si, sampled_rows, sample,
                   report, console, stats_file>>

\* One iteration of the loop of lines 223-225; json.dumps raises TypeError on
\* a value it cannot serialize, and the with statement closes the file.
WriteRecord ==
    /\ pc = "write"
    /\ wi <= Len(sample)
    /\ \/ /\ sample[wi].instance_id = unserializable
          /\ pc' = "error"
          /\ error' = "TypeError: not JSON serializable"
          /\ UNCHANGED <<out_file, wi>>
       \/ /\ sample[wi].instance_id # unserializable
          /\ out_file' = [out_file EXCEPT !.lines = Append(@, Record(sample[wi]))]
          /\ wi' = wi + 1
          /\ UNCHANGED <<pc, error>>
    /\ UNCHANGED <<dataset, args, unserializable, np_global, py_random, run,
                   prev, df, exact_allocs, floor_allocs, si, sampled_rows, sample, report,
                   console, stats_file>>

\* Lines 228-229.
WriteStats ==
    /\ pc = "write"
    /\ wi > Len(sample)
    /\ stats_file' = [exists |-> TRUE, lines |-> report]
    /\ pc' = "saved"
    /\ UNCHANGED <<dataset, args, unserializable, np_global, py_random, run,
                   prev, error, df, exact_allocs, floor_allocs, si, sampled_rows, sample,
                   report, console, out_file, wi>>

\* Lines 231-233.
PrintSaved ==
    /\ pc = "saved"
    /\ console' = console \o <<[msg |-> "Saved problems", n |-> args.n],
                               [msg |-> "Saved distribution report", n |-> 0],
                               [msg |-> "Next step", n |-> 0]>>
    /\ pc' = "done"
    /\ UNCHANGED <<dataset, args, unserializable, np_global, py_random, run,
                   prev, error, df, exact_allocs, floor_allocs, si, sampled_rows, sample,
                   report, out_file, stats_file, wi>>

\* The program is invoked again with the same arguments, on the same dataset
\* and output directory, in a new process: its generators start from other
\* entropy.
Restart ==
    /\ run = 1
    /\ pc \in {"done", "error"}
    /\ run' = 2
    /\ prev' = [pc |-> pc, error |-> error, sample |-> sample,
                ambient |-> np_global]
    /\ np_global' \in Ambient \ {np_global}
    /\ py_random' = np_global'
    /\ pc' = "normalize"
    /\ error' = ""
    /\ df' = dataset
    /\ exact_allocs' = <<>>
    /\ floor_allocs' = <<>>
    /\ si' = 0
    /\ sampled_rows' = <<>>
    /\ sample' = <<>>
    /\ report' = <<>>
    /\ console' = <<>>
    /\ wi' = 0
    /\ UNCHANGED <<dataset, args, unserializable, out_file, stats_file>>

Next ==
    \/ NormalizeDifficulty
    \/ ComputeStrata
    \/ Allocate
    \/ DrawStratum
    \/ ConcatShuffle
    \/ BuildReport
    \/ DryRunReturn
    \/ OpenOut
    \/ WriteRecord
    \/ WriteStats
    \/ PrintSaved
    \/ Restart

Spec == Init /\ [][Next]_vars

----------------------------------------------------------------------------
\* Properties

Abs(x) == IF x < 0 THEN -x ELSE x

\* 1 <= n <= dataset size.
ValidN == 1 <= args.n /\ args.n <= Len(dataset)

\* The allocation is computed (floor_allocs is never empty after line 102).
Allocated == floor_allocs # <<>>

\* The rows of a frame that belong to a stratum.
DrawnFrom(frame, stratum) ==
    Cardinality({i \in 1..Len(frame) : frame[i].stratum = stratum})

\* The increment entry j of the dict received at lines 101-102.
Extra(j) == floor_allocs[j].k - exact_allocs[j].floor

\* The messages printed so far.
Printed == {console[i].msg : i \in 1..Len(console)}

\* C1: with 1 <= n <= dataset size, the counts after flooring, the
\* largest-remainder increments and the min(k, stratum size) cap sum to n,
\* sampling raises nothing, and the returned sample has exactly n rows.
C1_ExactlyN ==
    ValidN =>
        /\ error \notin {"ValueError: negative number of rows",
                         "ValueError: No objects to concatenate"}
        /\ Allocated =>
              SumK([j \in 1..Len(floor_allocs) |->
                      [k |-> Min(floor_allocs[j].k,
                                 DrawnFrom(df, floor_allocs[j].stratum))]]) = args.n
        /\ sample # <<>> => Len(sample) = args.n

\* C1 witness: a valid n over two strata, one of which received an
\* increment, and the sample is returned.
C1_Witness ==
    /\ ValidN
    /\ pc = "report"
    /\ Len(floor_allocs) >= 2
    /\ \E j \in 1..Len(floor_allocs) : Extra(j) = 1
    /\ Len(sample) = args.n

\* C2 as claimed: when n exceeds the dataset size or is not positive, no row
\* is drawn, no sample is returned and the run does not go on to the report.
C2_InvalidSizeRejected ==
    (args.n <= 0 \/ args.n > Len(dataset)) =>
        /\ sampled_rows = <<>>
        /\ sample = <<>>
        /\ pc \notin {"report", "branch", "write", "saved", "done"}

\* C3: no instance_id appears twice among the rows drawn so far, nor in the
\* returned sample.
C3_NoDuplicates ==
    LET drawn == Concat(sampled_rows)
    IN /\ \A i, j \in 1..Len(drawn) :
              i # j => drawn[i].instance_id # drawn[j].instance_id
       /\ \A i, j \in 1..Len(sample) :
              i # j => sample[i].instance_id # sample[j].instance_id

\* C3 witness: a sample of two rows from two strata of a three-row dataset,
\* so that one draw chose among the rows of its stratum.
C3_Witness ==
    /\ pc = "report"
    /\ Len(df) = 3
    /\ Len(sample) = 2
    /\ Cardinality(Strata(sample)) = 2

\* C4 as claimed: for every stratum, the allocated count and the number of
\* rows drawn differ from count * n / total by less than 1.
C4_ProportionalBound ==
    sample # <<>> =>
        \A j \in 1..Len(floor_allocs) :
            LET exact == exact_allocs[j].exact
                total == Len(df)
            IN /\ Abs(floor_allocs[j].k * total - exact) < total
               /\ Abs(DrawnFrom(sample, floor_allocs[j].stratum) * total - exact)
                     < total

\* C4 for 1 <= n <= dataset size only, where the cap of line 110 never binds.
C4_BoundForValidN == ValidN => C4_ProportionalBound

\* C5 as claimed: when the sample has fewer rows than n, the report and the
\* final message state the number of rows sampled.
C5_ShortfallReported ==
    (report # <<>> /\ Len(sample) < args.n) =>
        /\ report[1].sample_size = Len(sample)
        /\ \A i \in 1..Len(console) :
              console[i].msg = "Saved problems" => console[i].n = Len(sample)

\* C6 as claimed (for a valid n): of two strata with equal fractional
\* remainders of which one receives the extra slot, the one with the lexically
\* smaller key receives it.
C6_LexicalTieBreak ==
    (Allocated /\ ValidN) =>
        LET ea == exact_allocs
        IN \A i, j \in 1..Len(ea) :
              (i # j /\ ea[i].key = ea[j].key /\ Extra(i) = 1 /\ Extra(j) = 0)
                  => LexLess(ea[i].stratum, ea[j].stratum)

\* C6 amended: of two strata with equal fractional remainders of which one
\* receives the extra slot, the one value_counts() lists first receives it.
C6_ListedFirstTieBreak ==
    Allocated =>
        LET ea == exact_allocs
        IN \A i, j \in 1..Len(ea) :
              (i # j /\ ea[i].key = ea[j].key /\ Extra(i) = 1 /\ Extra(j) = 0)
                  => i < j

\* C6 witness: two strata tie, and the one listed first receives the slot
\* although its key is lexically the larger.
C6_Witness ==
    /\ Allocated
    /\ ValidN
    /\ LET ea == exact_allocs
       IN \E i, j \in 1..Len(ea) :
             /\ i < j
             /\ ea[i].key = ea[j].key
             /\ Extra(i) = 1
             /\ Extra(j) = 0
             /\ LexLess(ea[j].stratum, ea[i].stratum)

\* C7: a dry run leaves both files unwritten at every point and ends having
\* printed the report; a run that is not dry has written every record of the
\* sample and the report before it prints the success message, and does not
\* complete without printing it.
C7_DryRunAndSave ==
    /\ args.dry_run =>
          /\ ~out_file.exists
          /\ ~stats_file.exists
          /\ pc = "done" => "report" \in Printed
    /\ (~args.dry_run /\ "Saved problems" \in Printed) =>
          /\ report # <<>>
          /\ out_file = [exists |-> TRUE,
                         lines |-> [i \in 1..Len(sample) |-> Record(sample[i])]]
          /\ stats_file = [exists |-> TRUE, lines |-> report]
    /\ (~args.dry_run /\ pc = "done") => "Saved problems" \in Printed

\* C7 witness: a dry run has completed, with the report printed.
C7_Witness ==
    /\ args.dry_run
    /\ pc = "done"
    /\ "report" \in Printed
    /\ "[dry-run] Not saving files." \in Printed

\* C8: the second invocation on the same (dataset, n, seed) returns the same
\* rows in the same order as the first and ends the same way, whatever state
\* the process-wide generator started in.
C8_Deterministic ==
    run = 2 =>
        /\ sample # <<>> => sample = prev.sample
        /\ pc \in {"done", "error"} =>
              /\ sample = prev.sample
              /\ pc = prev.pc
              /\ error = prev.error

\* C8 witness: the second invocation, started from another generator state,
\* has completed with a sample of two rows, one of them chosen among the two
\* rows of its stratum.
C8_Witness ==
    /\ run = 2
    /\ pc = "done"
    /\ np_global # prev.ambient
    /\ Len(sample) = 2
    /\ Len(df) = 3
    /\ Cardinality(Strata(sample)) = 2

\* C9 as claimed: two rows have the same stratum key if and only if they have
\* the same repo and the same difficulty.
C9_KeyInjective ==
    pc \notin {"normalize", "strata"} =>
        \A i, j \in 1..Len(df) :
            (df[i].stratum = df[j].stratum)
                <=> (df[i].repo = df[j].repo /\ df[i].difficulty = df[j].difficulty)

\* C10 as claimed: a run that ended in an error leaves no truncated records
\* file and not one file without the other.
C10_NoPartialOutput ==
    pc = "error" =>
        /\ out_file.exists => Len(out_file.lines) = Len(sample)
        /\ out_file.exists <=> stats_file.exists

====
